---------------------------- MODULE Spec2Model ----------------------------
(***************************************************************************)
(* Model of the news/product listing router (GET /qs, GET /,               *)
(* GET /category/:cid, GET /:nid) and of the course-comment model          *)
(* (addComment).                                                           *)
(*                                                                         *)
(* Strings are sequences of atoms.  An atom that comes from the request is *)
(* a single character; an atom that comes from a template literal of the   *)
(* handler is either a single structural character ( "(" , ")" ) or a      *)
(* multi-character piece of SQL text that holds no parenthesis, quote or   *)
(* backslash.  Concatenating the atoms gives the JavaScript string.        *)
(***************************************************************************)
EXTENDS Integers, Sequences, FiniteSets, TLC

VARIABLES
    \* ---- router (src/unnamed/part_000) ----
    req,        \* the request being handled (route, query string, params)
    pc,         \* position of the handler: the await it is suspended at
    conditions, \* GET /qs: the conditions array
    where,      \* GET /qs: the WHERE clause
    limit,      \* GET /qs: limit
    offset,     \* GET /qs: offset
    total,      \* GET /qs: result of countWithQS
    resp,       \* the response sent (or NoResponse)
    queries,    \* storage queries issued by the current request, in order
    failures,   \* number of storage queries of the current request that failed
    wrote,      \* a write hit the table between the count and the data query
    table,      \* the stored rows of the listing table
    \* ---- comment model (src/models/coursecomment.js) ----
    comments,     \* coffseeker_db.comments, in insertion order
    cpc,          \* per caller: position inside addComment
    cargs,        \* per caller: the arguments of the call
    checkComment, \* per caller: rows returned by the existence SELECT
    cret,         \* per caller: value returned by addComment
    ncalls        \* number of addComment calls started

routerVars == <<req, pc, conditions, where, limit, offset, total, resp,
                queries, failures, wrote, table>>
commentVars == <<comments, cpc, cargs, checkComment, cret, ncalls>>
vars == <<routerVars, commentVars>>

-----------------------------------------------------------------------------
(* JavaScript values *)

\* `undefined`: a one-atom sequence whose atom is no character
Undefined == <<"undefined">>

\* JS truthiness of a query-string value (undefined and '' are falsy)
Truthy(s) == s # Undefined /\ s # <<>>

NaN == [nan |-> TRUE, v |-> 0]
Num(n) == [nan |-> FALSE, v |-> n]

DigitChars == <<"0", "1", "2", "3", "4", "5", "6", "7", "8", "9">>
Digit == {DigitChars[i] : i \in 1..10}
DigitVal(c) == (CHOOSE i \in 1..10 : DigitChars[i] = c) - 1

IsDigits(s) == Len(s) > 0 /\ \A i \in 1..Len(s) : s[i] \in Digit

RECURSIVE DigitsVal(_)
DigitsVal(s) ==
    IF s = <<>> THEN 0
    ELSE DigitsVal(SubSeq(s, 1, Len(s) - 1)) * 10 + DigitVal(s[Len(s)])

\* Number(x) on undefined or on a string of the modelled alphabet
\* (no whitespace, no '.', no exponent)
NumberOf(x) ==
    IF x = Undefined THEN NaN
    ELSE IF x = <<>> THEN Num(0)
    ELSE IF IsDigits(x) THEN Num(DigitsVal(x))
    ELSE IF Head(x) = "-" /\ IsDigits(Tail(x)) THEN Num(0 - DigitsVal(Tail(x)))
    ELSE IF Head(x) = "+" /\ IsDigits(Tail(x)) THEN Num(DigitsVal(Tail(x)))
    ELSE NaN

\* length of the longest prefix of s made of digits
RECURSIVE DigitPrefixLen(_)
DigitPrefixLen(s) ==
    IF s = <<>> \/ Head(s) \notin Digit THEN 0
    ELSE 1 + DigitPrefixLen(Tail(s))

\* parseInt(x): optional sign, then the longest run of digits; NaN if none
ParseInt(x) ==
    LET signed == x # <<>> /\ Head(x) \in {"-", "+"}
        body == IF signed THEN Tail(x) ELSE x
        n == DigitPrefixLen(body)
        val == DigitsVal(SubSeq(body, 1, n))
    IN  IF n = 0 THEN NaN
        ELSE IF signed /\ Head(x) = "-" THEN Num(0 - val)
        ELSE Num(val)

RECURSIVE NatToStr(_)
NatToStr(n) ==
    IF n < 10 THEN <<DigitChars[n + 1]>>
    ELSE NatToStr(n \div 10) \o <<DigitChars[(n % 10) + 1]>>

\* `${x}` for a number x
NumToStr(x) ==
    IF x.nan THEN <<"N", "a", "N">>
    ELSE IF x.v < 0 THEN <<"-">> \o NatToStr(0 - x.v)
    ELSE NatToStr(x.v)

\* a || d for a number a
OrDefault(a, d) == IF a.nan \/ a.v = 0 THEN Num(d) ELSE a

\* a >= b and a <= b on numbers (false when either is NaN)
Ge(a, b) == ~a.nan /\ ~b.nan /\ a.v >= b.v
Le(a, b) == ~a.nan /\ ~b.nan /\ a.v <= b.v

\* s.split(sep) for a one-atom separator
RECURSIVE SplitOn(_, _)
SplitOn(s, sep) ==
    IF \A i \in 1..Len(s) : s[i] # sep THEN <<s>>
    ELSE LET i == CHOOSE k \in 1..Len(s) :
                      s[k] = sep /\ \A j \in 1..(k - 1) : s[j] # sep
         IN  <<SubSeq(s, 1, i - 1)>> \o SplitOn(SubSeq(s, i + 1, Len(s)), sep)

\* s.split(',')
Split(s) == SplitOn(s, ",")

\* parts.join(sep), sep a sequence of atoms
RECURSIVE Join(_, _)
Join(parts, sep) ==
    IF parts = <<>> THEN <<>>
    ELSE IF Len(parts) = 1 THEN parts[1]
    ELSE parts[1] \o sep \o Join(Tail(parts), sep)

\* a[i] of a JS array of strings (undefined past the end)
At(a, i) == IF i <= Len(a) THEN a[i] ELSE Undefined

\* sqlString.escape(s) for a string s: quote it, backslash-escape ' and \
RECURSIVE EscapeChars(_)
EscapeChars(s) ==
    IF s = <<>> THEN <<>>
    ELSE (IF Head(s) \in {"'", "\\"} THEN <<"\\", Head(s)>> ELSE <<Head(s)>>)
         \o EscapeChars(Tail(s))

Escape(s) == <<"'">> \o EscapeChars(s) \o <<"'">>

-----------------------------------------------------------------------------
(* GET /qs: the search conditions (part_000 lines 36-80) *)

\* price floor and ceiling of line 69
PriceMin == 1500
PriceMax == 10000

\* conditions[0]
KeywordCondition(keyword) ==
    IF Truthy(keyword)
    THEN <<"name LIKE ">> \o Escape(<<"%">> \o keyword \o <<"%">>)
    ELSE <<>>

\* conditions[1]
CategoryCondition(cat_ids) ==
    IF Truthy(cat_ids)
    THEN <<"cat_id IN ", "(">> \o cat_ids \o <<")">>
    ELSE <<>>

\* conditions[2], [3], [4]: FIND_IN_SET(n, col) OR ...; colArg is the
\* template text `, color`, `, tag` or `, size`
FindInSetCondition(ids, colArg) ==
    LET id_list == IF Truthy(ids) THEN Split(ids) ELSE <<>>
    IN  Join([i \in 1..Len(id_list) |->
                 <<"FIND_IN_SET", "(">> \o NumToStr(NumberOf(id_list[i]))
                     \o <<colArg, ")">>],
             <<" OR ">>)

\* min and max of the price range
PriceBounds(price_range) ==
    LET priceRanges == IF Truthy(price_range) THEN Split(price_range) ELSE <<>>
    IN  [min |-> NumberOf(At(priceRanges, 1)),
         max |-> NumberOf(At(priceRanges, 2))]

\* the test of line 69
PriceAccepted(min, max) == Ge(min, Num(PriceMin)) /\ Le(max, Num(PriceMax))

\* the conditions array: 5 entries, and a 6th when the price test passes
Conditions(q) ==
    LET b == PriceBounds(q.price_range)
    IN  << KeywordCondition(q.keyword),
           CategoryCondition(q.cat_ids),
           FindInSetCondition(q.colors, ", color"),
           FindInSetCondition(q.tags, ", tag"),
           FindInSetCondition(q.sizes, ", size") >>
        \o (IF PriceAccepted(b.min, b.max)
            THEN << <<"price BETWEEN ">> \o NumToStr(b.min)
                        \o <<" AND ">> \o NumToStr(b.max) >>
            ELSE <<>>)

\* conditions.filter((v) => v)
RECURSIVE FilterTruthy(_)
FilterTruthy(cs) ==
    IF cs = <<>> THEN <<>>
    ELSE (IF Head(cs) # <<>> THEN <<Head(cs)>> ELSE <<>>) \o FilterTruthy(Tail(cs))

\* the WHERE clause of lines 74-80
Where(conds) ==
    LET conditionsValues == FilterTruthy(conds)
    IN  IF Len(conditionsValues) > 0
        THEN <<"WHERE ">> \o
             Join([i \in 1..Len(conditionsValues) |->
                      <<"(", " ">> \o conditionsValues[i] \o <<" ", ")">>],
                  <<" AND ">>)
        ELSE <<>>

\* lines 84-88: perpageNow, pageNow, limit, offset
PerpageNow(q) == OrDefault(NumberOf(q.perpage), 10).v
PageNow(q) == OrDefault(NumberOf(q.page), 1).v
Limit(q) == PerpageNow(q)
Offset(q) == (PageNow(q) - 1) * PerpageNow(q)

\* lines 91-93: the order object, as (field, direction)
Order(q) ==
    IF Truthy(q.orderby)
    THEN [field |-> At(Split(q.orderby), 1), dir |-> At(Split(q.orderby), 2)]
    ELSE [field |-> <<"i", "d">>, dir |-> <<"a", "s", "c">>]

-----------------------------------------------------------------------------
(* SQL text, as the store reads it *)

\* number of backslashes that directly precede atom i
BackslashRun(s, i) ==
    Cardinality({j \in 1..(i - 1) : \A k \in j..(i - 1) : s[k] = "\\"})

\* the quote marks that open or close a literal (not backslash-escaped)
QuoteMarks(s) ==
    {i \in 1..Len(s) : s[i] = "'" /\ BackslashRun(s, i) % 2 = 0}

\* The top-level structure of the text after the WHERE word: [ok, groups].
\* ok: the text is one or more parenthesized groups separated by AND, with
\* balanced parentheses and closed literals; groups: the text between the
\* outer parentheses of each group.  Parentheses inside literals do not
\* count.
TopLevel(s) ==
    LET qm == QuoteMarks(s)
        quoted == {i \in 1..Len(s) :
                      i \in qm \/ Cardinality({j \in qm : j < i}) % 2 = 1}
        opens == {i \in 1..Len(s) : s[i] = "(" /\ i \notin quoted}
        closes == {i \in 1..Len(s) : s[i] = ")" /\ i \notin quoted}
        depth == [i \in 0..Len(s) |->
                     Cardinality({j \in opens : j <= i})
                         - Cardinality({j \in closes : j <= i})]
        gopen == {i \in opens : depth[i] = 1}
        gclose == {i \in closes : depth[i] = 0}
        kth(S, k) == CHOOSE x \in S : Cardinality({y \in S : y <= x}) = k
        balanced == /\ \A i \in 1..Len(s) : depth[i] >= 0
                    /\ depth[Len(s)] = 0
                    /\ Cardinality(qm) % 2 = 0
                    /\ \A i \in 1..Len(s) : s[i] = "\\" => i \in quoted
        separated == \A i \in 1..Len(s) :
                        (depth[i] = 0 /\ i \notin gclose) =>
                            /\ s[i] = " AND " /\ i \notin quoted
                            /\ (i - 1) \in gclose /\ (i + 1) \in gopen
        adjacent == \E i \in gclose : (i + 1) \in gopen
    IN  IF balanced
        THEN [ok |-> s # <<>> /\ 1 \in gopen /\ separated /\ ~adjacent,
              groups |-> [k \in 1..Cardinality(gopen) |->
                             SubSeq(s, kth(gopen, k) + 1, kth(gclose, k) - 1)]]
        ELSE [ok |-> FALSE, groups |-> <<>>]

\* [ok, groups]: whether w is '' or `WHERE (g1) AND (g2) ...`, and the
\* texts g1, g2, ... between the outer parentheses
WhereShape(w) ==
    IF w = <<>> THEN [ok |-> TRUE, groups |-> <<>>]
    ELSE IF Head(w) # "WHERE " THEN [ok |-> FALSE, groups |-> <<>>]
    ELSE TopLevel(Tail(w))

\* an integer literal: optional minus sign and digits
IsIntLiteral(s) == IsDigits(s) \/ (s # <<>> /\ Head(s) = "-" /\ IsDigits(Tail(s)))

IntOf(s) == NumberOf(s).v

\* the text between the single spaces the handler puts inside a group
GroupText(g) ==
    IF Len(g) >= 2 /\ g[1] = " " /\ g[Len(g)] = " "
    THEN SubSeq(g, 2, Len(g) - 1) ELSE g

\* the string a quoted literal denotes (backslash escapes removed)
RECURSIVE Unescape(_)
Unescape(s) ==
    IF s = <<>> THEN <<>>
    ELSE IF Head(s) = "\\" /\ Len(s) >= 2 THEN <<s[2]>> \o Unescape(SubSeq(s, 3, Len(s)))
    ELSE <<Head(s)>> \o Unescape(Tail(s))

\* s LIKE p, with the wildcards % and _
RECURSIVE Like(_, _)
Like(p, s) ==
    IF p = <<>> THEN s = <<>>
    ELSE IF Head(p) = "%" THEN Like(Tail(p), s) \/ (s # <<>> /\ Like(p, Tail(s)))
    ELSE s # <<>> /\ (Head(p) = "_" \/ Head(p) = Head(s)) /\ Like(Tail(p), Tail(s))

\* one FIND_IN_SET(n, col) call: [ok, val]
FindInSetEval(t, row) ==
    IF Len(t) >= 5 /\ t[1] = "FIND_IN_SET" /\ t[2] = "(" /\ t[Len(t)] = ")"
       /\ t[Len(t) - 1] \in {", color", ", tag", ", size"}
       /\ IsIntLiteral(SubSeq(t, 3, Len(t) - 2))
    THEN LET n == IntOf(SubSeq(t, 3, Len(t) - 2))
             col == t[Len(t) - 1]
         IN  [ok |-> TRUE,
              val |-> IF col = ", color" THEN n \in row.color
                      ELSE IF col = ", tag" THEN n \in row.tag
                      ELSE n \in row.size]
    ELSE [ok |-> FALSE, val |-> FALSE]

\* one group of the WHERE clause on one row: [ok, val]; ok is FALSE when
\* the store rejects the text
GroupEval(g, row) ==
    LET t == GroupText(g)
    IN  IF t = <<>> THEN [ok |-> FALSE, val |-> FALSE]
        ELSE IF t[1] = "cat_id IN " THEN
            IF Len(t) >= 4 /\ t[2] = "(" /\ t[Len(t)] = ")"
               /\ \A k \in 1..Len(Split(SubSeq(t, 3, Len(t) - 1))) :
                      IsIntLiteral(Split(SubSeq(t, 3, Len(t) - 1))[k])
            THEN LET parts == Split(SubSeq(t, 3, Len(t) - 1))
                 IN  [ok |-> TRUE,
                      val |-> \E k \in 1..Len(parts) : IntOf(parts[k]) = row.cat_id]
            ELSE [ok |-> FALSE, val |-> FALSE]
        ELSE IF t[1] = "price BETWEEN " THEN
            LET b == SplitOn(Tail(t), " AND ")
            IN  IF Len(b) = 2 /\ IsIntLiteral(b[1]) /\ IsIntLiteral(b[2])
                THEN [ok |-> TRUE,
                      val |-> IntOf(b[1]) <= row.price /\ row.price <= IntOf(b[2])]
                ELSE [ok |-> FALSE, val |-> FALSE]
        ELSE IF t[1] = "name LIKE " THEN
            IF Len(t) >= 3 /\ t[2] = "'" /\ t[Len(t)] = "'"
            THEN [ok |-> TRUE,
                  val |-> Like(Unescape(SubSeq(t, 3, Len(t) - 1)), row.name)]
            ELSE [ok |-> FALSE, val |-> FALSE]
        ELSE LET calls == SplitOn(t, " OR ")
             IN  [ok |-> \A k \in 1..Len(calls) : FindInSetEval(calls[k], row).ok,
                  val |-> \E k \in 1..Len(calls) : FindInSetEval(calls[k], row).val]

\* a row every well-formed clause can be evaluated on
ProbeRow == [id |-> 0, cat_id |-> 0, name |-> <<>>, color |-> {}, tag |-> {},
             size |-> {}, price |-> 0]

\* the store accepts the WHERE clause
WhereOk(w) ==
    LET sh == WhereShape(w)
    IN  sh.ok /\ \A k \in 1..Len(sh.groups) : GroupEval(sh.groups[k], ProbeRow).ok

\* the row satisfies an accepted WHERE clause
RowMatches(w, row) ==
    LET sh == WhereShape(w)
    IN  \A k \in 1..Len(sh.groups) : GroupEval(sh.groups[k], row).val

\* the ORDER BY the store accepts: a known column and asc or desc
OrderOk(order) ==
    /\ order.field \in {<<"i", "d">>, <<"p", "r", "i", "c", "e">>}
    /\ order.dir \in {<<"a", "s", "c">>, <<"d", "e", "s", "c">>}

\* row a comes before row b
Before(order, a, b) ==
    LET ka == IF order.field = <<"i", "d">> THEN a.id ELSE a.price
        kb == IF order.field = <<"i", "d">> THEN b.id ELSE b.price
    IN  IF ka = kb THEN a.id < b.id
        ELSE IF order.dir = <<"a", "s", "c">> THEN ka < kb ELSE ka > kb

RECURSIVE Sorted(_, _)
Sorted(order, rows) ==
    IF rows = {} THEN <<>>
    ELSE LET first == CHOOSE a \in rows : \A b \in rows \ {a} : Before(order, a, b)
         IN  <<first>> \o Sorted(order, rows \ {first})

Min(a, b) == IF a < b THEN a ELSE b
Max(a, b) == IF a > b THEN a ELSE b

\* LIMIT lim OFFSET off on an ordered result
Window(rows, lim, off) == SubSeq(rows, off + 1, Min(off + lim, Len(rows)))

IdAsc == [field |-> <<"i", "d">>, dir |-> <<"a", "s", "c">>]

\* countWithQS(where): [ok, n]
CountWithQS(w, tbl) ==
    IF WhereOk(w)
    THEN [ok |-> TRUE, n |-> Cardinality({r \in tbl : RowMatches(w, r)})]
    ELSE [ok |-> FALSE, n |-> 0]

\* getNewsWithQS(where, order, limit, offset): [ok, rows]
GetNewsWithQS(w, order, lim, off, tbl) ==
    IF WhereOk(w) /\ OrderOk(order) /\ lim >= 0 /\ off >= 0
    THEN [ok |-> TRUE,
          rows |-> Window(Sorted(order, {r \in tbl : RowMatches(w, r)}), lim, off)]
    ELSE [ok |-> FALSE, rows |-> <<>>]

\* getNews(): every row
GetNews(tbl) == Sorted(IdAsc, tbl)

-----------------------------------------------------------------------------
(* Bounds and the requests drawn *)

MaxRows == 3        \* rows the listing table can hold
MaxPage == 2        \* largest page number requested
MaxPerpage == 2     \* largest perpage requested
MaxParamLen == 2    \* length of a :cid or :nid path parameter

\* the rows a writer can store under an id
RowsWithId(i) ==
    { [id |-> i, cat_id |-> 1, name |-> <<"a">>, color |-> {1}, tag |-> {2},
       size |-> {3}, price |-> 2000],
      [id |-> i, cat_id |-> 2, name |-> <<"b">>, color |-> {1, 2}, tag |-> {},
       size |-> {3}, price |-> 12000] }

PageValues ==
    {Undefined, <<"a">>, <<"-", "1">>} \cup {NatToStr(n) : n \in 0..MaxPage}
PerpageValues ==
    {Undefined, <<"-", "1">>} \cup {NatToStr(n) : n \in 1..MaxPerpage}

QsReq(page, keyword, cat_ids, colors, tags, sizes, orderby, perpage, price_range) ==
    [route |-> "qs", page |-> page, keyword |-> keyword, cat_ids |-> cat_ids,
     colors |-> colors, tags |-> tags, sizes |-> sizes, orderby |-> orderby,
     perpage |-> perpage, price_range |-> price_range]

PriceDesc == <<"p", "r", "i", "c", "e", ",", "d", "e", "s", "c">>

\* GET /qs requests of the router specification: every page and perpage
\* with and without a category list, some orders, and some filter
\* combinations
QsRequests ==
    { QsReq(p, Undefined, c, Undefined, Undefined, Undefined, Undefined, pp, Undefined) :
        p \in PageValues, pp \in PerpageValues, c \in {Undefined, <<"1">>} }
    \cup
    { QsReq(p, Undefined, Undefined, Undefined, Undefined, Undefined, o, <<"1">>, Undefined) :
        p \in {Undefined, <<"2">>}, o \in {PriceDesc, <<"x">>} }
    \cup
    { QsReq(Undefined, k, c, col, t, Undefined, Undefined, Undefined, pr) :
        k \in {Undefined, <<"a">>},
        c \in {Undefined, <<"(">>},
        col \in {Undefined, <<"2">>, <<"x">>},
        t \in {Undefined, <<"2", ",", "4">>},
        pr \in {Undefined, <<"1", "5", "0", "0", ",", "1", "0", "0", "0", "0">>} }

ListRequests ==
    { [route |-> "list", page |-> p, perpage |-> pp] :
        p \in PageValues, pp \in PerpageValues }

RECURSIVE StrUpTo(_, _)
StrUpTo(alphabet, n) ==
    IF n = 0 THEN {<<>>}
    ELSE LET shorter == StrUpTo(alphabet, n - 1)
         IN  shorter \cup {Append(s, c) : s \in shorter, c \in alphabet}

\* path parameters (Express matches no empty segment)
ParamValues == StrUpTo({"1", "4", "a", "-"}, MaxParamLen) \ {<<>>}

CategoryRequests ==
    { [route |-> "category", cid |-> c, page |-> p, perpage |-> pp] :
        c \in ParamValues, p \in {Undefined, <<"2">>, <<"-", "1">>},
        pp \in {Undefined, <<"1">>} }

NidRequests == { [route |-> "nid", nid |-> n] : n \in ParamValues }

-----------------------------------------------------------------------------
(* The router *)

NoRequest == [route |-> "none"]
NoResponse == [status |-> 0]

\* the body both catch blocks send with status 500
Generic500 == [status |-> 500, body |-> [error |-> "fetch failed, retry"]]

\* What a rejected promise of an async handler without try/catch leads to:
\* Express 4 never answers (the rejection is unhandled), Express 5 passes
\* the error to the application's error handler.  The sources pin neither.
UnhandledOutcomes == {NoResponse, [status |-> 500, body |-> [error |-> "framework"]]}

\* each behaviour follows one request; requests share nothing but the table
RouterIdle == pc = "idle"

\* lines 111-116: the result object of GET /qs
QsResult(q, tot, news) ==
    [total |-> tot, perpage |-> NumberOf(q.perpage), page |-> NumberOf(q.page),
     data |-> news]

\* the count query with its WHERE clause dropped
CountQueryUnfiltered(w) == [fn |-> "countWithQS", where |-> <<>>]

\* line 96: the count query
CountQuery(w) == [fn |-> "countWithQS", where |-> w]

\* line 97: the data query
DataQuery(w, q, lim, off) ==
    [fn |-> "getNewsWithQS", where |-> w, order |-> Order(q),
     limit |-> lim, offset |-> off]

\* lines 19-96: GET /qs up to the first await
QsRequest(q) ==
    /\ RouterIdle
    /\ req' = q
    /\ conditions' = Conditions(q)
    /\ where' = Where(Conditions(q))
    /\ limit' = Limit(q)
    /\ offset' = Offset(q)
    /\ queries' = <<CountQuery(Where(Conditions(q)))>>
    /\ total' = 0
    /\ failures' = 0
    /\ wrote' = FALSE
    /\ resp' = NoResponse
    /\ pc' = "qs_count"
    /\ UNCHANGED <<table, commentVars>>

\* line 96 resolves, line 97 issues the data query
QsCountReturns ==
    /\ pc = "qs_count"
    /\ CountWithQS(queries[1].where, table).ok
    /\ total' = CountWithQS(queries[1].where, table).n
    /\ queries' = Append(queries, DataQuery(where, req, limit, offset))
    /\ pc' = "qs_data"
    /\ UNCHANGED <<req, conditions, where, limit, offset, resp, failures, wrote,
                   table, commentVars>>

\* a rejected await of GET /qs or GET /: nothing in the handler catches it
Rejected(at) ==
    /\ pc = at
    /\ failures' = failures + 1
    /\ \E r \in UnhandledOutcomes : resp' = r
    /\ pc' = "done"
    /\ UNCHANGED <<req, conditions, where, limit, offset, total, queries, wrote,
                   table, commentVars>>

QsCountFails == Rejected("qs_count")

\* line 97 resolves, lines 111-118 answer
QsDataReturns ==
    /\ pc = "qs_data"
    /\ LET d == queries[2]
           r == GetNewsWithQS(d.where, d.order, d.limit, d.offset, table)
       IN  /\ r.ok
           /\ resp' = [status |-> 200, body |-> QsResult(req, total, r.rows)]
    /\ pc' = "done"
    /\ UNCHANGED <<req, conditions, where, limit, offset, total, queries, failures,
                   wrote, table, commentVars>>

QsDataFails == Rejected("qs_data")

\* array.slice(start, end)
Slice(a, start, end) ==
    LET norm(i) == IF i < 0 THEN Max(Len(a) + i, 0) ELSE Min(i, Len(a))
    IN  SubSeq(a, norm(start) + 1, norm(end))

\* Math.ceil(a / b) for a >= 0 and b # 0
CeilDiv(a, b) == IF b > 0 THEN (a + b - 1) \div b ELSE 0 - (a \div (0 - b))

\* lines 121-123: GET / up to its await
ListRequest(q) ==
    /\ RouterIdle
    /\ req' = q
    /\ queries' = <<[fn |-> "getNews"]>>
    /\ conditions' = <<>> /\ where' = <<>> /\ limit' = 0 /\ offset' = 0
    /\ total' = 0 /\ failures' = 0 /\ wrote' = FALSE
    /\ resp' = NoResponse
    /\ pc' = "list_get"
    /\ UNCHANGED <<table, commentVars>>

\* lines 125-143
ListReturns ==
    /\ pc = "list_get"
    /\ LET allNews == GetNews(table)
           perpage == OrDefault(NumberOf(req.perpage), 6).v
           page == OrDefault(NumberOf(req.page), 1).v
           off == (page - 1) * perpage
       IN  /\ limit' = perpage
           /\ offset' = off
           /\ resp' = [status |-> 200,
                       body |-> [message |-> "success", code |-> "200",
                                 news |-> Slice(allNews, off, off + perpage),
                                 currentPage |-> page,
                                 totalPages |-> CeilDiv(Len(allNews), perpage)]]
    /\ pc' = "done"
    /\ UNCHANGED <<req, conditions, where, total, queries, failures, wrote,
                   table, commentVars>>

ListFails == Rejected("list_get")

\* lines 165-178: the switch on cid
CategoryId(cid) ==
    IF cid = <<"1">> THEN 1
    ELSE IF cid = <<"2">> THEN 2
    ELSE IF cid = <<"3">> THEN 3
    ELSE 0

\* lines 146-195: GET /category/:cid up to its await, or its early answers
CategoryRequest(q) ==
    /\ RouterIdle
    /\ req' = q
    /\ conditions' = <<>> /\ where' = <<>>
    /\ total' = 0 /\ failures' = 0 /\ wrote' = FALSE
    /\ LET perpageNow == OrDefault(NumberOf(q.perpage), 6).v
           pageNow == OrDefault(NumberOf(q.page), 1).v
           off == (pageNow - 1) * perpageNow
       IN  IF ParseInt(q.cid).nan
           THEN /\ resp' = [status |-> 400, body |-> [error |-> "invalid cid"]]
                /\ queries' = <<>> /\ limit' = 0 /\ offset' = 0
                /\ pc' = "done"
           ELSE IF CategoryId(q.cid) = 0
           THEN /\ resp' = [status |-> 404, body |-> [error |-> "no such category"]]
                /\ queries' = <<>> /\ limit' = perpageNow /\ offset' = off
                /\ pc' = "done"
           ELSE /\ resp' = NoResponse
                /\ queries' = <<[fn |-> "execute", sql |-> "category",
                                 categoryId |-> CategoryId(q.cid),
                                 limit |-> perpageNow, offset |-> off]>>
                /\ limit' = perpageNow /\ offset' = off
                /\ pc' = "cat_exec"
    /\ UNCHANGED <<table, commentVars>>

\* lines 191-204
CategoryReturns ==
    /\ pc = "cat_exec"
    /\ LET d == queries[1]
           rows == Window(Sorted(IdAsc, {r \in table : r.cat_id = d.categoryId}),
                          d.limit, d.offset)
       IN  /\ d.limit >= 0 /\ d.offset >= 0
           /\ resp' = IF Len(rows) = 0
                      THEN [status |-> 404, body |-> [error |-> "no such category"]]
                      ELSE [status |-> 200, body |-> rows]
    /\ pc' = "done"
    /\ UNCHANGED <<req, conditions, where, limit, offset, total, queries, failures,
                   wrote, table, commentVars>>

\* a rejected await inside a try block: the catch block answers 500
Caught(at) ==
    /\ pc = at
    /\ failures' = failures + 1
    /\ resp' = Generic500
    /\ pc' = "done"
    /\ UNCHANGED <<req, conditions, where, limit, offset, total, queries, wrote,
                   table, commentVars>>

\* lines 205-208
CategoryFails == Caught("cat_exec")

\* lines 212-223: GET /:nid up to its await, or the thrown error
NidRequest(q) ==
    /\ RouterIdle
    /\ req' = q
    /\ conditions' = <<>> /\ where' = <<>> /\ limit' = 0 /\ offset' = 0
    /\ total' = 0 /\ failures' = 0 /\ wrote' = FALSE
    /\ IF ParseInt(q.nid).nan
       THEN /\ resp' = Generic500
            /\ queries' = <<>>
            /\ pc' = "done"
       ELSE /\ resp' = NoResponse
            /\ queries' = <<[fn |-> "execute", sql |-> "news_id", nid |-> q.nid]>>
            /\ pc' = "nid_exec"
    /\ UNCHANGED <<table, commentVars>>

\* lines 223-232; the store compares the string with the integer column by
\* its leading integer
NidReturns ==
    /\ pc = "nid_exec"
    /\ LET rows == Sorted(IdAsc, {r \in table : r.id = ParseInt(queries[1].nid).v})
       IN  resp' = IF Len(rows) = 0
                   THEN [status |-> 404, body |-> [error |-> "no such news"]]
                   ELSE [status |-> 200, body |-> rows[1]]
    /\ pc' = "done"
    /\ UNCHANGED <<req, conditions, where, limit, offset, total, queries, failures,
                   wrote, table, commentVars>>

\* lines 233-236
NidFails == Caught("nid_exec")

\* Another client of the store inserts or deletes a row of the listing
\* table: before a request, or between the count query and the data query
\* of GET /qs.  (A write while a request waits for its first result is
\* the same as a write before the request; a write after the response is
\* not seen by it.)
TableWrite ==
    /\ pc \in {"idle", "qs_data"}
    /\ \/ \E i \in 1..MaxRows : \E r \in RowsWithId(i) :
             /\ \A x \in table : x.id # i
             /\ table' = table \cup {r}
       \/ \E r \in table : table' = table \ {r}
    /\ wrote' = (pc = "qs_data")
    /\ UNCHANGED <<req, pc, conditions, where, limit, offset, total, resp, queries,
                   failures, commentVars>>

-----------------------------------------------------------------------------
(* The comment model (src/models/coursecomment.js) *)

MaxCalls == 3       \* addComment calls started in one behaviour
MaxDate == 1        \* distinct dates
MaxUser == 2        \* distinct users

Callers == {"c1", "c2"}

CommentArgs ==
    { [course_id |-> 1, user_id |-> u, user_email |-> "e", user_name |-> "n",
       comment |-> "good", date |-> d, rating |-> 5] :
        u \in 1..MaxUser, d \in 1..MaxDate }

NoArgs == [course_id |-> 0]
NoReturn == [kind |-> "none"]

\* the row the INSERT of line 38 stores
CommentRow(a) ==
    [product_id |-> 0, course_id |-> a.course_id, user_id |-> a.user_id,
     user_email |-> a.user_email, user_name |-> a.user_name,
     comment |-> a.comment, create_at |-> a.date, rating |-> a.rating]

\* the key the existence check compares
KeyOf(row) == <<row.create_at, row.user_id, row.course_id>>
ArgKey(a) == <<a.date, a.user_id, a.course_id>>

RECURSIVE SelectByKey(_, _)
SelectByKey(rows, k) ==
    IF rows = <<>> THEN <<>>
    ELSE (IF KeyOf(Head(rows)) = k
          THEN <<[course_id |-> Head(rows).course_id, user_id |-> Head(rows).user_id]>>
          ELSE <<>>) \o SelectByKey(Tail(rows), k)

\* line 31: SELECT course_id, user_id ... WHERE create_at = ? AND user_id = ?
\* AND course_id = ?
SelectComment(rows, a) == SelectByKey(rows, ArgKey(a))

\* an INSERT that skips a row whose key is stored
InsertCommentUnique(rows, a) ==
    IF \E i \in 1..Len(rows) : KeyOf(rows[i]) = ArgKey(a)
    THEN rows ELSE Append(rows, CommentRow(a))

\* line 38: the INSERT; the statement names no conflict handling and the
\* table is appended to
InsertComment(rows, a) == Append(rows, CommentRow(a))

\* the test of line 34 off by one
CommentExistsMoreThanOne(found) == Len(found) > 1

\* line 34: the test that skips the INSERT
CommentExists(found) == Len(found) # 0

\* lines 28-33: a call starts and its SELECT runs
AddCommentSelect(c, a) ==
    /\ cpc[c] \in {"idle", "returned"}
    /\ ncalls < MaxCalls
    /\ ncalls' = ncalls + 1
    /\ cargs' = [cargs EXCEPT ![c] = a]
    /\ checkComment' = [checkComment EXCEPT ![c] = SelectComment(comments, a)]
    /\ cret' = [cret EXCEPT ![c] = NoReturn]
    /\ cpc' = [cpc EXCEPT ![c] = "checked"]
    /\ UNCHANGED <<comments, routerVars>>

\* lines 34-42: return the rows found, or INSERT and return its result
AddCommentFinish(c) ==
    /\ cpc[c] = "checked"
    /\ IF CommentExists(checkComment[c])
       THEN /\ cret' = [cret EXCEPT ![c] = [kind |-> "rows", rows |-> checkComment[c]]]
            /\ UNCHANGED comments
       ELSE /\ comments' = InsertComment(comments, cargs[c])
            /\ cret' = [cret EXCEPT ![c] = [kind |-> "ResultSetHeader",
                                              affectedRows |-> 1]]
    /\ cpc' = [cpc EXCEPT ![c] = "returned"]
    /\ UNCHANGED <<cargs, checkComment, ncalls, routerVars>>

\* no call is between its existence check and its return
NoCallInFlight == \A c \in Callers : cpc[c] # "checked"

\* a call that starts only when no other call is in flight
AddCommentSelectAlone(c, a) == NoCallInFlight /\ AddCommentSelect(c, a)

-----------------------------------------------------------------------------
(* Specifications *)

RouterInit ==
    /\ req = NoRequest /\ pc = "idle"
    /\ conditions = <<>> /\ where = <<>> /\ limit = 0 /\ offset = 0
    /\ total = 0 /\ resp = NoResponse /\ queries = <<>> /\ failures = 0
    /\ wrote = FALSE /\ table = {}

CommentIdle ==
    /\ cpc = [c \in Callers |-> "idle"]
    /\ cargs = [c \in Callers |-> NoArgs]
    /\ checkComment = [c \in Callers |-> <<>>]
    /\ cret = [c \in Callers |-> NoReturn]
    /\ ncalls = 0

\* the router, one request at a time, next to a writer of the table
Init == RouterInit /\ CommentIdle /\ comments = <<>>

Next ==
    \/ \E q \in QsRequests : QsRequest(q)
    \/ QsCountReturns
    \/ QsCountFails
    \/ QsDataReturns
    \/ QsDataFails
    \/ \E q \in ListRequests : ListRequest(q)
    \/ ListReturns
    \/ ListFails
    \/ \E q \in CategoryRequests : CategoryRequest(q)
    \/ CategoryReturns
    \/ CategoryFails
    \/ \E q \in NidRequests : NidRequest(q)
    \/ NidReturns
    \/ NidFails
    \/ TableWrite

Spec == Init /\ [][Next]_vars

\* the comments table a behaviour starts from: at most one row per key
InitialComments ==
    {<<>>} \cup {<<CommentRow(a)>> : a \in CommentArgs}
    \cup {<<CommentRow(ab[1]), CommentRow(ab[2])>> :
             ab \in {x \in CommentArgs \X CommentArgs : ArgKey(x[1]) # ArgKey(x[2])}}

CommentInit == RouterInit /\ CommentIdle /\ comments \in InitialComments

\* addComment calls of several callers, interleaved at their awaits
CommentNext ==
    \/ \E c \in Callers : \E a \in CommentArgs : AddCommentSelect(c, a)
    \/ \E c \in Callers : AddCommentFinish(c)

SpecComment == CommentInit /\ [][CommentNext]_vars

\* addComment calls that do not overlap
CommentSeqNext ==
    \/ \E c \in Callers : \E a \in CommentArgs : AddCommentSelectAlone(c, a)
    \/ \E c \in Callers : AddCommentFinish(c)

SpecCommentSeq == CommentInit /\ [][CommentSeqNext]_vars

\* filter parameters of the predicate-builder specification
MaxKeywordLen == 1  \* length of the keyword
MaxCatIdsLen == 2   \* length of cat_ids

KeywordValues == {Undefined} \cup StrUpTo({"a", "'", ")"}, MaxKeywordLen)
CatIdsValues ==
    {Undefined, <<"1", ",", "2">>} \cup StrUpTo({"1", ",", "("}, MaxCatIdsLen)
IdListValues == {Undefined, <<>>, <<"1">>, <<"1", ",", "2">>, <<"x">>}
PriceParts ==
    { <<"a">>, <<"1", "0", "0", "0">>, <<"1", "5", "0", "0">>,
      <<"1", "0", "0", "0", "0">>, <<"1", "0", "0", "0", "1">> }
PriceRangeValues ==
    {Undefined, <<>>} \cup PriceParts
    \cup {lo \o <<",">> \o hi : lo \in PriceParts, hi \in PriceParts}

\* lines 36-80 alone: the conditions and the WHERE clause of a request
BuildWhere ==
    /\ pc = "params"
    /\ conditions' = Conditions(req)
    /\ where' = Where(Conditions(req))
    /\ pc' = "built"
    /\ UNCHANGED <<req, limit, offset, total, resp, queries, failures, wrote,
                   table, commentVars>>

\* a GET /qs request with any combination of the filter parameters
WhereInit ==
    /\ req \in [route : {"qs"}, page : {Undefined}, keyword : KeywordValues,
                 cat_ids : CatIdsValues, colors : IdListValues,
                 tags : {Undefined, <<"2">>}, sizes : {Undefined, <<"3">>},
                 orderby : {Undefined}, perpage : {Undefined},
                 price_range : PriceRangeValues]
    /\ pc = "params"
    /\ conditions = <<>> /\ where = <<>> /\ limit = 0 /\ offset = 0
    /\ total = 0 /\ resp = NoResponse /\ queries = <<>> /\ failures = 0
    /\ wrote = FALSE /\ table = {}
    /\ CommentIdle /\ comments = <<>>

WhereNext == BuildWhere

\* the predicate builder as a function of the filter parameters
SpecWhere == WhereInit /\ [][WhereNext]_vars

-----------------------------------------------------------------------------
(* Claims *)

InDomain(x) == Ge(x, Num(PriceMin)) /\ Le(x, Num(PriceMax))

\* both bounds of the requested price range lie in [1500, 10000]
PriceInDomain(q) ==
    InDomain(PriceBounds(q.price_range).min) /\ InDomain(PriceBounds(q.price_range).max)

B2N(b) == IF b THEN 1 ELSE 0

\* number of active filter dimensions of a request: a non-empty keyword,
\* cat_ids, colors, tags, sizes, and a price range with 1500 <= min and
\* max <= 10000
ActiveDimensions(q) ==
    B2N(Truthy(q.keyword)) + B2N(Truthy(q.cat_ids)) + B2N(Truthy(q.colors))
    + B2N(Truthy(q.tags)) + B2N(Truthy(q.sizes))
    + B2N(Ge(PriceBounds(q.price_range).min, Num(PriceMin))
          /\ Le(PriceBounds(q.price_range).max, Num(PriceMax)))

HasPriceClause(w) == \E i \in 1..Len(w) : w[i] = "price BETWEEN "

\* C1: the WHERE clause is empty when no dimension is active, and otherwise
\* is WHERE followed by one parenthesized, non-empty sub-clause per active
\* dimension, joined only by AND.
C1_WhereHasOneGroupPerDimension ==
    pc = "built" =>
        LET sh == WhereShape(where)
            n == ActiveDimensions(req)
        IN  /\ n = 0 => where = <<>>
            /\ n > 0 => /\ where # <<>>
                        /\ sh.ok
                        /\ Len(sh.groups) = n
                        /\ \A k \in 1..Len(sh.groups) : GroupText(sh.groups[k]) # <<>>

\* C2: a price sub-clause is present only when both bounds of price_range
\* lie in [1500, 10000].
C2_PriceClauseOnlyInDomain ==
    (pc = "built" /\ HasPriceClause(where)) => PriceInDomain(req)

\* C8: when cat_ids is non-empty the category sub-clause is cat_id IN (list)
\* with every element of the list an integer.
C8_CategoryListIsIntegers ==
    (pc = "built" /\ Truthy(req.cat_ids)) =>
        LET c == conditions[2]
            list == Split(SubSeq(c, 3, Len(c) - 1))
        IN  /\ Len(c) >= 4 /\ c[1] = "cat_id IN " /\ c[2] = "(" /\ c[Len(c)] = ")"
            /\ \A k \in 1..Len(list) : IsIntLiteral(list[k])

IsQs == req.route = "qs"

\* C3: limit = perPage, offset = (page - 1) * perPage with page >= 1, and
\* the offset passed to the data query is never negative.
C3_OffsetNeverNegative ==
    \A i \in 1..Len(queries) :
        queries[i].fn = "getNewsWithQS" =>
            /\ queries[i].limit = PerpageNow(req)
            /\ queries[i].offset = (PageNow(req) - 1) * PerpageNow(req)
            /\ PageNow(req) >= 1
            /\ queries[i].offset >= 0

MatchingRows(w, tbl) == {r \in tbl : RowMatches(w, r)}

\* C5: the response's total is the number of stored rows matching the WHERE
\* clause, the count query carrying the WHERE clause of the data query and
\* no window, when no write hit the table since the count query; and the
\* data array has at most perPage rows.
C5_TotalIsFilteredCount ==
    (IsQs /\ pc = "done" /\ resp.status = 200) =>
        /\ Len(resp.body.data) <= PerpageNow(req)
        /\ queries[1].where = queries[2].where
        /\ ~wrote => resp.body.total = Cardinality(MatchingRows(queries[2].where, table))

\* a filtered request answered with the first of two matching rows
C5_Witness ==
    /\ IsQs /\ pc = "done" /\ resp.status = 200 /\ ~wrote
    /\ where # <<>>
    /\ Cardinality(table) > resp.body.total
    /\ resp.body.total > Len(resp.body.data)
    /\ Len(resp.body.data) = 1

\* C6: on every route a storage failure is answered with a 500 response,
\* and the failed query is not retried.
C6_StorageFailureAnswered500 ==
    failures > 0 => (pc = "done" /\ failures = 1 /\ resp.status = 500)

NotNumber(x) == NumberOf(x).nan

\* C7: a :cid or :nid that is not a number is answered with an error
\* status and reaches no storage query.
C7_NonNumericParamNeverStored ==
    /\ (req.route = "category" /\ NotNumber(req.cid)) =>
            (queries = <<>> /\ resp.status >= 400)
    /\ (req.route = "nid" /\ NotNumber(req.nid)) =>
            (queries = <<>> /\ resp.status >= 400)

\* C9: the page and perpage fields of the response are the integers >= 1
\* used to compute limit and offset (1 and 10 when the parameters are
\* absent).
C9_ResponseReportsPageUsed ==
    (IsQs /\ pc = "done" /\ resp.status = 200) =>
        /\ resp.body.page = Num(PageNow(req)) /\ PageNow(req) >= 1
        /\ resp.body.perpage = Num(PerpageNow(req)) /\ PerpageNow(req) >= 1

RowsWithKey(rows, k) == {i \in 1..Len(rows) : KeyOf(rows[i]) = k}

Inserted(c) == cpc[c] = "returned" /\ cret[c].kind = "ResultSetHeader"

\* C4: when two calls with the same (user_id, course_id, date) both found
\* no row and both ran the INSERT, the table holds two rows with that key.
C4_BothInsertsLeaveTwoRows ==
    \A c \in Callers : \A d \in Callers \ {c} :
        (Inserted(c) /\ Inserted(d) /\ ArgKey(cargs[c]) = ArgKey(cargs[d])) =>
            Cardinality(RowsWithKey(comments, ArgKey(cargs[c]))) >= 2

\* two overlapping calls with one key have both inserted
C4_Witness ==
    \E c \in Callers : \E d \in Callers \ {c} :
        /\ Inserted(c) /\ Inserted(d)
        /\ ArgKey(cargs[c]) = ArgKey(cargs[d])
        /\ checkComment[c] = <<>> /\ checkComment[d] = <<>>
        /\ Cardinality(RowsWithKey(comments, ArgKey(cargs[c]))) = 2

UniqueKeys(rows) ==
    \A i \in 1..Len(rows) : \A j \in 1..Len(rows) :
        KeyOf(rows[i]) = KeyOf(rows[j]) => i = j

\* the step in which the call of c returns
Returns(c) == cpc[c] = "checked" /\ cpc'[c] = "returned"

\* C10: calls that do not overlap keep at most one row per key: a call
\* whose key exists leaves the table unchanged and returns the rows found,
\* a call whose key is absent appends exactly one row.
C10_SequentialCallsKeepKeysUnique ==
    [][ UniqueKeys(comments) =>
          /\ UniqueKeys(comments')
          /\ \A c \in Callers : Returns(c) =>
                IF RowsWithKey(comments, ArgKey(cargs[c])) # {}
                THEN /\ comments' = comments
                     /\ cret'[c].kind = "rows"
                     /\ cret'[c].rows = SelectComment(comments, cargs[c])
                     /\ Len(cret'[c].rows) = 1
                ELSE /\ comments' = Append(comments, CommentRow(cargs[c]))
                     /\ cret'[c].kind = "ResultSetHeader" ]_vars

\* a second call with a stored key has returned the row found, and a call
\* with a new key has inserted
C10_Witness ==
    \E c \in Callers : \E d \in Callers \ {c} :
        /\ cpc[c] = "returned" /\ cret[c].kind = "rows" /\ Len(cret[c].rows) = 1
        /\ Inserted(d)
        /\ ncalls >= 2
        /\ UniqueKeys(comments)

=============================================================================
